---- MODULE Spec2Model ----
(***************************************************************************)
(* Model of the apply/delete command execution bridge of go-kube           *)
(* (package kubectl): applyFunc and deleteFunc, their two mutexes, the     *)
(* process-global fatal-error hook of k8s.io/kubectl/pkg/cmd/util, the     *)
(* unbuffered result channel of each call, the deadline timer and the      *)
(* engine goroutine each call spawns; together with the public functions   *)
(* in front of the bridge, the DryRunType enumeration and the lifecycle of *)
(* an EphemeralCluster (package resources).                                *)
(*                                                                         *)
(* Time is counted in ticks of 1/TicksPerSecond second.                    *)
(***************************************************************************)
EXTENDS Integers, Sequences, FiniteSets, TLC

\* ---------------------------------------------------------------- bounds
TicksPerSecond == 2
\* the clock value at which the first call can be made
StartClock == 1
\* the clock advances in single ticks only during the first MaxTicks ticks (it
\* still jumps to the due time of an armed timer after them)
MaxTicks == 0
\* the timeout, in ticks from the start, of a caller's context with a live deadline
LiveTimeout == 2
\* how many different names randomName can return
MaxClusterNames == 2
\* how many temporary files the host has room for
MaxTempFiles == 2

\* ------------------------------------------------------ program constants
\* 15 * time.Second, the synthesized deadline
DefaultTimeoutSeconds == 15
DefaultTimeout == DefaultTimeoutSeconds * TicksPerSecond
\* type DryRunType uint8
DryRunTypeBits == 8

\* ------------------------------------------------------------ the callers
\* two concurrent callers, each entering applyFunc or deleteFunc
Calls == {"c1", "c2"}
Funcs == {"applyFunc", "deleteFunc"}

\* ------------------------------------------------------------- the values
\* an options pointer is <<>> when nil, else <<the struct it points to>>
NilOpts == <<>>
\* &applyOptions{} / &deleteOptions{}
applyOptions == [DryRun |-> FALSE, Recursive |-> FALSE, IsKustomization |-> FALSE]
deleteOptions == [IsKustomization |-> FALSE]
OptsOf(fn) == IF fn = "applyFunc" THEN <<applyOptions>> ELSE <<deleteOptions>>

NoDeadline == [ok |-> FALSE, deadline |-> 0]
WithDeadline(t) == [ok |-> TRUE, deadline |-> t]

\* error values; origin is the call whose engine invocation raised a fatal
NoCall == "none"
NilError == [kind |-> "nil", origin |-> NoCall]
DeadlineExceeded == [kind |-> "DeadlineExceeded", origin |-> NoCall]
FatalError(e) == [kind |-> "fatal", origin |-> e]
ErrEmptyKubeconfig == [kind |-> "kubeconfig path cannot be empty", origin |-> NoCall]
ErrNilOptions == [kind |-> "options cannot be nil", origin |-> NoCall]
ErrNoFiles(fn) ==
    [kind |-> IF fn = "applyFunc" THEN "no files to apply" ELSE "no files to delete",
     origin |-> NoCall]
NoResult == [kind |-> "pending", origin |-> NoCall]
\* ctx.Err() of a cancelled context
Canceled == [kind |-> "Canceled", origin |-> NoCall]

\* util.fatal, the default handler: prints and calls os.Exit
DefaultHandler == "default"
Unlocked == "unlocked"

\* the flags of a command: each flag name with the value last set, or Unset
FlagNames == {"request-timeout", "dry-run", "recursive", "kustomize", "filename"}
Unset == <<>>
NoFlags == [f \in FlagNames |-> Unset]

\* before any public function was called, before any String() conversion
NoPublicCall == [name |-> "none", did |-> [kind |-> "none"]]
NoConversion == [kind |-> "none"]
\* a nil pointer field, the empty string of a name or path field
Nil == 0
\* NewEphemeralCluster(): only the node image and version are set
NewEphemeralCluster ==
    [nodeImage |-> "kindest/node", nodeVersion |-> "v1.26.2", clusterName |-> Nil,
     clientset |-> Nil, kubeConfigFilePath |-> Nil, provider |-> Nil,
     restConfig |-> Nil, dynamicClient |-> Nil]

VARIABLES
    clock,            \* time.Now(), in ticks
    exited,           \* os.Exit was called: the process is gone
    applyMutex,       \* holder of applyMutex, or Unlocked
    deleteLock,       \* holder of deleteLock, or Unlocked
    fatalErrHandler,  \* the process-global hook: DefaultHandler or the call whose closure is installed
    pc,               \* position of each call
    args,             \* arguments of each call
    result,           \* value each call returned
    errChan,          \* per call: the senders blocked on its unbuffered errChan, in arrival order
    deadline,         \* per call: local deadline
    timeLeft,         \* per call: local timeLeft
    armedAt,          \* per call: clock value at which time.AfterFunc was called
    timer,            \* per call: "none", "armed", "sending" (callback blocked on send), "done"
    engine,           \* per call: "none", "running", "inhandler", "sendnil", "exited"
    signaled,         \* history: per call, its engine invocation signaled a fatal condition
    first,            \* history: per call, the value of the first send started on its errChan
    received,         \* history: per call, number of values received from its errChan
    cancelled,        \* per call: the caller cancelled the context it passed
    cluster,          \* the resources present in the target cluster
    public,           \* the last call of a public function of package kubectl and what it did
    dryRun,           \* the last DryRunType converted with String() and the outcome
    ec,               \* the fields of one EphemeralCluster object
    host,             \* the Kind clusters and the temporary files on the host
    lastOp,           \* the last Start or Stop on ec and the error it returned
    waitLog,          \* history: per call, when it entered and when it got the mutex, if logged
    flags             \* per call: the flags set on the command it built

vars == <<clock, exited, applyMutex, deleteLock, fatalErrHandler, pc, args, result,
          errChan, deadline, timeLeft, armedAt, timer, engine, signaled, first, received,
          cancelled, cluster, public, dryRun, ec, host, lastOp, waitLog, flags>>

KubeconfigPaths == {"", "kubeconfig"}
OptsValues(fn) == {NilOpts, OptsOf(fn)}
FilePathsValues == {<<>>, <<"m1">>}
\* contexts a caller can pass: without a deadline, with a deadline before the
\* start of the clock (expired at any call), with a later one
PastDeadline == StartClock - 1
LiveDeadline == StartClock + LiveTimeout
Contexts == {NoDeadline, WithDeadline(PastDeadline), WithDeadline(LiveDeadline)}

\* the arguments of one call: the function entered and what it is given
InputsOf(fn) ==
    {[fn |-> fn, kubeconfigPath |-> k, opts |-> o, filePaths |-> p, ctx |-> x] :
        k \in KubeconfigPaths, o \in OptsValues(fn), p \in FilePathsValues, x \in Contexts}
AllInputs == UNION {InputsOf(fn) : fn \in Funcs}
Family(c) == IF args[c].fn = "applyFunc" THEN "apply" ELSE "delete"

ValidationError_KubeconfigLast(a) ==
    IF a.opts = NilOpts THEN ErrNilOptions
    ELSE IF Len(a.filePaths) = 0 THEN ErrNoFiles(a.fn)
    ELSE IF a.kubeconfigPath = "" THEN ErrEmptyKubeconfig
    ELSE NilError
ValidationError_FilesFirst(a) ==
    IF a.kubeconfigPath = "" THEN ErrEmptyKubeconfig
    ELSE IF Len(a.filePaths) = 0 THEN ErrNoFiles(a.fn)
    ELSE IF a.opts = NilOpts THEN ErrNilOptions
    ELSE NilError
\* the three precondition checks, in the order of the code
ValidationError(a) ==
    IF a.kubeconfigPath = "" THEN ErrEmptyKubeconfig
    ELSE IF a.opts = NilOpts THEN ErrNilOptions
    ELSE IF Len(a.filePaths) = 0 THEN ErrNoFiles(a.fn)
    ELSE NilError


\* the times of a call that the model remembers, when it does
NoWaitLog(logged) == [logged |-> logged, calledAt |-> 0, lockedAt |-> 0]
\* the log after call c passed the point named by field at time now
Stamp(log, c, field, now) ==
    IF ~log[c].logged THEN log
    ELSE IF field = "calledAt" THEN [log EXCEPT ![c].calledAt = now]
    ELSE [log EXCEPT ![c].lockedAt = now]

\* the state before any call, for given sets of arguments and cluster contents,
\* the times of entry and of locking logged or not
InitOf(inputs, clusters, logged) ==
    /\ clock = StartClock
    /\ exited = FALSE
    /\ applyMutex = Unlocked
    /\ deleteLock = Unlocked
    /\ fatalErrHandler = DefaultHandler
    /\ pc = [c \in Calls |-> "idle"]
    /\ args \in [Calls -> inputs]
    /\ result = [c \in Calls |-> NoResult]
    /\ errChan = [c \in Calls |-> <<>>]
    /\ deadline = [c \in Calls |-> 0]
    /\ timeLeft = [c \in Calls |-> 0]
    /\ armedAt = [c \in Calls |-> 0]
    /\ timer = [c \in Calls |-> "none"]
    /\ engine = [c \in Calls |-> "none"]
    /\ signaled = [c \in Calls |-> FALSE]
    /\ first = [c \in Calls |-> NoResult]
    /\ received = [c \in Calls |-> 0]
    /\ cancelled = [c \in Calls |-> FALSE]
    /\ cluster \in clusters
    /\ public = NoPublicCall
    /\ dryRun = NoConversion
    /\ ec = NewEphemeralCluster
    /\ host = [clusters |-> {}, files |-> {}]
    /\ lastOp = [op |-> "none", err |-> NilError]
    /\ waitLog = [c \in Calls |-> NoWaitLog(logged)]
    /\ flags = [c \in Calls |-> NoFlags]

InitWith(inputs, clusters) == InitOf(inputs, clusters, FALSE)

Init == InitWith(AllInputs, {{}})

\* calls as the tests make them: valid arguments, several manifests in one call or
\* one other manifest, on a cluster where earlier applies have succeeded or not
ManifestSets == {<<"m1", "m2">>, <<"m3">>}
ClusterInputs ==
    {[fn |-> fn, kubeconfigPath |-> "kubeconfig", opts |-> OptsOf(fn), filePaths |-> p,
      ctx |-> NoDeadline] : fn \in Funcs, p \in ManifestSets}
ClusterInit == InitWith(ClusterInputs, {{}, {"m1", "m2"}})

\* calls with valid arguments and a context without deadline or with one that lies
\* ahead at entry (and can pass while the call waits), their times of entry and
\* of locking logged
WaitInputs ==
    {[fn |-> fn, kubeconfigPath |-> "kubeconfig", opts |-> OptsOf(fn), filePaths |-> <<"m1">>,
      ctx |-> x] : fn \in Funcs, x \in {NoDeadline, WithDeadline(LiveDeadline)}}
WaitInit == InitOf(WaitInputs, {{}}, TRUE)

\* ------------------------------------------------------------------ time
Due(c) == armedAt[c] + timeLeft[c]
ArmedDues == {Due(c) : c \in {x \in Calls : timer[x] = "armed"}}

\* the instants the clock can advance to: the next tick, or the due time of an armed timer
TickTargets == {t \in {clock + 1} : clock < StartClock + MaxTicks} \cup {d \in ArmedDues : d > clock}

\* the monotonic clock behind time.Now() advances
Tick ==
    /\ ~exited
    /\ UNCHANGED <<cancelled, cluster, public, dryRun, ec, host, lastOp, waitLog, flags>>
    /\ \E t \in TickTargets : clock' = t
    /\ UNCHANGED <<exited, applyMutex, deleteLock, fatalErrHandler, pc, args, result,
                   errChan, deadline, timeLeft, armedAt, timer, engine, signaled, first, received>>

\* ------------------------------------------------------------- the mutexes
Holder(f) == IF f = "apply" THEN applyMutex ELSE deleteLock

\* a caller enters applyFunc / deleteFunc
Call(c) ==
    /\ ~exited
    /\ UNCHANGED <<cancelled, cluster, public, dryRun, ec, host, lastOp, flags>>
    /\ waitLog' = Stamp(waitLog, c, "calledAt", clock)
    /\ pc[c] = "idle"
    /\ pc' = [pc EXCEPT ![c] = "lock"]
    /\ UNCHANGED <<clock, exited, applyMutex, deleteLock, fatalErrHandler, args, result,
                   errChan, deadline, timeLeft, armedAt, timer, engine, signaled, first, received>>

\* applyMutex.Lock() / deleteLock.Lock()
CanLock_NoWait(c) == TRUE
\* Lock() blocks until the mutex of the family is free
CanLock(c) == Holder(Family(c)) = Unlocked

Lock(c) ==
    /\ ~exited
    /\ UNCHANGED <<cancelled, cluster, public, dryRun, ec, host, lastOp, flags>>
    /\ waitLog' = Stamp(waitLog, c, "lockedAt", clock)
    /\ pc[c] = "lock"
    /\ CanLock(c)
    /\ IF Family(c) = "apply"
       THEN applyMutex' = c /\ UNCHANGED deleteLock
       ELSE deleteLock' = c /\ UNCHANGED applyMutex
    /\ pc' = [pc EXCEPT ![c] = "validate"]
    /\ UNCHANGED <<clock, exited, fatalErrHandler, args, result,
                   errChan, deadline, timeLeft, armedAt, timer, engine, signaled, first, received>>

Validate_RestoreAlways(c) ==
    /\ ~exited
    /\ UNCHANGED <<cancelled, cluster, public, dryRun, ec, host, lastOp, waitLog, flags>>
    /\ pc[c] = "validate"
    /\ IF ValidationError(args[c]) # NilError
       THEN /\ result' = [result EXCEPT ![c] = ValidationError(args[c])]
            /\ pc' = [pc EXCEPT ![c] = "unlock"]
            /\ fatalErrHandler' = DefaultHandler
       ELSE /\ pc' = [pc EXCEPT ![c] = "deadline"]
            /\ UNCHANGED <<result, fatalErrHandler>>
    /\ UNCHANGED <<clock, exited, applyMutex, deleteLock, args,
                   errChan, deadline, timeLeft, armedAt, timer, engine, signaled, first, received>>
\* the three checks at the head of the function; a failed check returns at once,
\* with only the deferred Unlock registered
Validate(c) ==
    /\ ~exited
    /\ UNCHANGED <<cancelled, cluster, public, dryRun, ec, host, lastOp, waitLog, flags>>
    /\ pc[c] = "validate"
    /\ IF ValidationError(args[c]) # NilError
       THEN /\ result' = [result EXCEPT ![c] = ValidationError(args[c])]
            /\ pc' = [pc EXCEPT ![c] = "unlock"]
       ELSE /\ pc' = [pc EXCEPT ![c] = "deadline"]
            /\ UNCHANGED result
    /\ UNCHANGED <<clock, exited, applyMutex, deleteLock, fatalErrHandler, args,
                   errChan, deadline, timeLeft, armedAt, timer, engine, signaled, first, received>>

EffectiveDeadline_Default(x, now) == now + DefaultTimeout
\* deadline, ok := ctx.Deadline(); if !ok { deadline = time.Now().Add(15 * time.Second) }
EffectiveDeadline(x, now) == IF x.ok THEN x.deadline ELSE now + DefaultTimeout

\* timeLeft := deadline.Sub(time.Now())
TimeLeft(d, now) == d - now

ArmTimer_AtEntry(c) ==
    /\ ~exited
    /\ UNCHANGED <<cancelled, cluster, public, dryRun, ec, host, lastOp, waitLog, flags>>
    /\ pc[c] = "deadline"
    /\ deadline' = [deadline EXCEPT ![c] = EffectiveDeadline(args[c].ctx, waitLog[c].calledAt)]
    /\ timeLeft' = [timeLeft EXCEPT ![c] = TimeLeft(deadline'[c], clock)]
    /\ armedAt' = [armedAt EXCEPT ![c] = clock]
    /\ timer' = [timer EXCEPT ![c] = "armed"]
    /\ pc' = [pc EXCEPT ![c] = "hook"]
    /\ UNCHANGED <<clock, exited, applyMutex, deleteLock, fatalErrHandler, args, result,
                   errChan, engine, signaled, first, received>>
\* lines 106-115 of deleteFunc, 425-434 of applyFunc: the deadline is read or
\* synthesized, timeLeft derived from it and time.AfterFunc(timeLeft, ...) armed.
\* The statements follow each other without blocking: they read the same tick.
ArmTimer(c) ==
    /\ ~exited
    /\ UNCHANGED <<cancelled, cluster, public, dryRun, ec, host, lastOp, waitLog, flags>>
    /\ pc[c] = "deadline"
    /\ deadline' = [deadline EXCEPT ![c] = EffectiveDeadline(args[c].ctx, clock)]
    /\ timeLeft' = [timeLeft EXCEPT ![c] = TimeLeft(deadline'[c], clock)]
    /\ armedAt' = [armedAt EXCEPT ![c] = clock]
    /\ timer' = [timer EXCEPT ![c] = "armed"]
    /\ pc' = [pc EXCEPT ![c] = "hook"]
    /\ UNCHANGED <<clock, exited, applyMutex, deleteLock, fatalErrHandler, args, result,
                   errChan, engine, signaled, first, received>>

\* a goroutine starts a send on the unbuffered errChan of call h and blocks
Send(ch, h, who, of, val) ==
    [ch EXCEPT ![h] = Append(@, [who |-> who, of |-> of, val |-> val])]
\* the first send started on the errChan of call h is remembered
NoteFirst(fs, h, val) ==
    IF fs[h] = NoResult THEN [fs EXCEPT ![h] = val] ELSE fs

\* the timer callback runs once timeLeft has elapsed: errChan <- context.DeadlineExceeded
TimerDue_Early(c) == TRUE
\* the runtime runs the callback no earlier than timeLeft after AfterFunc was called
TimerDue(c) == clock >= Due(c)

TimerFire(c) ==
    /\ ~exited
    /\ UNCHANGED <<cancelled, cluster, public, dryRun, ec, host, lastOp, waitLog, flags>>
    /\ timer[c] = "armed"
    /\ TimerDue(c)
    /\ timer' = [timer EXCEPT ![c] = "sending"]
    /\ errChan' = Send(errChan, c, "timer", c, DeadlineExceeded)
    /\ first' = NoteFirst(first, c, DeadlineExceeded)
    /\ UNCHANGED <<clock, exited, applyMutex, deleteLock, fatalErrHandler, pc, args, result,
                   deadline, timeLeft, armedAt, engine, signaled, received>>

\* util.BehaviorOnFatal(func(msg, errCode) { ...; errChan <- err })
InstallHook(c) ==
    /\ ~exited
    /\ UNCHANGED <<cancelled, cluster, public, dryRun, ec, host, lastOp, waitLog, flags>>
    /\ pc[c] = "hook"
    /\ fatalErrHandler' = c
    /\ pc' = [pc EXCEPT ![c] = "spawn"]
    /\ UNCHANGED <<clock, exited, applyMutex, deleteLock, args, result,
                   errChan, deadline, timeLeft, armedAt, timer, engine, signaled, first, received>>

\* the command is built and go func() { cmd.Run(...); errChan <- nil }() is started
\* flags.Set(name, value); a value is the sequence of the pieces of its string
Set(fl, name, value) == [fl EXCEPT ![name] = value]

\* strings.Join(elems, sep), the string as the sequence of its pieces
RECURSIVE Join(_, _)
Join(elems, sep) ==
    IF Len(elems) = 0 THEN <<>>
    ELSE IF Len(elems) = 1 THEN <<elems[1]>>
    ELSE <<elems[1], sep>> \o Join(Tail(elems), sep)

WholeSeconds_Ceil(tl) == -((-tl) \div TicksPerSecond)
\* int(timeLeft.Seconds()): the conversion of the float to int drops the fraction,
\* towards zero for either sign
WholeSeconds(tl) ==
    IF tl >= 0 THEN tl \div TicksPerSecond ELSE -((-tl) \div TicksPerSecond)

PathFlags_Swapped(fl, isKustomization, filePaths) ==
    IF isKustomization
    THEN Set(fl, "filename", Join(filePaths, ","))
    ELSE Set(fl, "kustomize", Join(filePaths, ","))
\* if opts.IsKustomization { Set("kustomize", ...) } else { Set("filename", ...) }
PathFlags(fl, isKustomization, filePaths) ==
    IF isKustomization
    THEN Set(fl, "kustomize", Join(filePaths, ","))
    ELSE Set(fl, "filename", Join(filePaths, ","))

\* the flags applyFunc sets on applyCmd; fmt.Sprint of the int is its decimal
\* numeral, kept here as the number it denotes
ApplyFlags(o, filePaths, tl) ==
    LET f1 == Set(NoFlags, "request-timeout", <<WholeSeconds(tl)>>)
        f2 == IF o.DryRun THEN Set(f1, "dry-run", <<"server">>) ELSE f1
        f3 == IF o.Recursive THEN Set(f2, "recursive", <<"true">>) ELSE f2
    IN  PathFlags(f3, o.IsKustomization, filePaths)

\* the flags deleteFunc sets on deleteCmd
DeleteFlags(o, filePaths) == PathFlags(NoFlags, o.IsKustomization, filePaths)

CommandFlags(a, tl) ==
    IF a.fn = "applyFunc" THEN ApplyFlags(a.opts[1], a.filePaths, tl)
    ELSE DeleteFlags(a.opts[1], a.filePaths)

Spawn(c) ==
    /\ ~exited
    /\ UNCHANGED <<cancelled, cluster, public, dryRun, ec, host, lastOp, waitLog>>
    /\ pc[c] = "spawn"
    /\ flags' = [flags EXCEPT ![c] = CommandFlags(args[c], timeLeft[c])]
    /\ engine' = [engine EXCEPT ![c] = "running"]
    /\ pc' = [pc EXCEPT ![c] = "recv"]
    /\ UNCHANGED <<clock, exited, applyMutex, deleteLock, fatalErrHandler, args, result,
                   errChan, deadline, timeLeft, armedAt, timer, signaled, first, received>>

\* the running invocation of call e signals a fatal condition (cmdutil.CheckErr):
\* whatever handler the global hook holds at that moment is called. The hook is
\* one unsynchronized word written by the calls and read by the engine goroutines;
\* every order of such a read with the racing writes is an interleaving here.
\* A handler installed by a call sends on that call's errChan and returns to the
\* invocation once the send is received; the default handler ends the process.
EngineFatal(e) ==
    /\ ~exited
    /\ UNCHANGED <<cancelled, cluster, public, dryRun, ec, host, lastOp, waitLog, flags>>
    /\ engine[e] = "running"
    /\ signaled' = [signaled EXCEPT ![e] = TRUE]
    /\ IF fatalErrHandler = DefaultHandler
       THEN /\ exited' = TRUE
            /\ UNCHANGED <<errChan, engine, first>>
       ELSE /\ errChan' = Send(errChan, fatalErrHandler, "handler", e, FatalError(e))
            /\ first' = NoteFirst(first, fatalErrHandler, FatalError(e))
            /\ engine' = [engine EXCEPT ![e] = "inhandler"]
            /\ UNCHANGED exited
    /\ UNCHANGED <<clock, applyMutex, deleteLock, fatalErrHandler, pc, args, result,
                   deadline, timeLeft, armedAt, timer, received>>

\* the resources the manifests at the given paths describe
Resources(paths) == {paths[i] : i \in 1..Len(paths)}
\* what an invocation that ran through without a fatal condition has done to the
\* cluster: apply created the resources of its manifests, delete removed them
Effect(a, cl) ==
    IF a.fn = "applyFunc"
    THEN IF a.opts[1].DryRun THEN cl ELSE cl \cup Resources(a.filePaths)
    ELSE cl \ Resources(a.filePaths)

\* cmd.Run returns: errChan <- nil
EngineDone(e) ==
    /\ ~exited
    /\ engine[e] = "running"
    /\ cluster' = IF signaled[e] THEN cluster ELSE Effect(args[e], cluster)
    /\ UNCHANGED <<cancelled, public, dryRun, ec, host, lastOp, waitLog, flags>>
    /\ engine' = [engine EXCEPT ![e] = "sendnil"]
    /\ errChan' = Send(errChan, e, "engine", e, NilError)
    /\ first' = NoteFirst(first, e, NilError)
    /\ UNCHANGED <<clock, exited, applyMutex, deleteLock, fatalErrHandler, pc, args, result,
                   deadline, timeLeft, armedAt, timer, signaled, received>>

Dequeue_Last(q) == [msg |-> q[Len(q)], rest |-> SubSeq(q, 1, Len(q) - 1)]
\* the receiver takes the sender at the head of the channel's send queue
\* (blocked senders of a Go channel are served in arrival order)
Dequeue(q) == [msg |-> Head(q), rest |-> Tail(q)]

\* return <-errChan: the receive; the sender it rendezvoused with goes on
Receive(c) ==
    /\ ~exited
    /\ UNCHANGED <<cancelled, cluster, public, dryRun, ec, host, lastOp, waitLog, flags>>
    /\ pc[c] = "recv"
    /\ errChan[c] # <<>>
    /\ LET m == Dequeue(errChan[c]).msg IN
        /\ result' = [result EXCEPT ![c] = m.val]
        /\ timer' = IF m.who = "timer" THEN [timer EXCEPT ![m.of] = "done"] ELSE timer
        /\ engine' = IF m.who = "engine" THEN [engine EXCEPT ![m.of] = "exited"]
                     ELSE IF m.who = "handler" THEN [engine EXCEPT ![m.of] = "running"]
                     ELSE engine
    /\ errChan' = [errChan EXCEPT ![c] = Dequeue(@).rest]
    /\ received' = [received EXCEPT ![c] = @ + 1]
    /\ pc' = [pc EXCEPT ![c] = "restore"]
    /\ UNCHANGED <<clock, exited, applyMutex, deleteLock, fatalErrHandler, args,
                   deadline, timeLeft, armedAt, signaled, first>>

\* defer util.DefaultBehaviorOnFatal()
RestoreHook(c) ==
    /\ ~exited
    /\ UNCHANGED <<cancelled, cluster, public, dryRun, ec, host, lastOp, waitLog, flags>>
    /\ pc[c] = "restore"
    /\ fatalErrHandler' = DefaultHandler
    /\ pc' = [pc EXCEPT ![c] = "unlock"]
    /\ UNCHANGED <<clock, exited, applyMutex, deleteLock, args, result,
                   errChan, deadline, timeLeft, armedAt, timer, engine, signaled, first, received>>

Unlock_ValidOnly(c) ==
    /\ ~exited
    /\ UNCHANGED <<cancelled, cluster, public, dryRun, ec, host, lastOp, waitLog, flags>>
    /\ pc[c] = "unlock"
    /\ IF ValidationError(args[c]) # NilError
       THEN UNCHANGED <<applyMutex, deleteLock>>
       ELSE IF Family(c) = "apply"
            THEN applyMutex' = Unlocked /\ UNCHANGED deleteLock
            ELSE deleteLock' = Unlocked /\ UNCHANGED applyMutex
    /\ pc' = [pc EXCEPT ![c] = "returned"]
    /\ UNCHANGED <<clock, exited, fatalErrHandler, args, result,
                   errChan, deadline, timeLeft, armedAt, timer, engine, signaled, first, received>>
\* defer applyMutex.Unlock() / deleteLock.Unlock(), and the call returns
Unlock(c) ==
    /\ ~exited
    /\ UNCHANGED <<cancelled, cluster, public, dryRun, ec, host, lastOp, waitLog, flags>>
    /\ pc[c] = "unlock"
    /\ IF Family(c) = "apply"
       THEN applyMutex' = Unlocked /\ UNCHANGED deleteLock
       ELSE deleteLock' = Unlocked /\ UNCHANGED applyMutex
    /\ pc' = [pc EXCEPT ![c] = "returned"]
    /\ UNCHANGED <<clock, exited, fatalErrHandler, args, result,
                   errChan, deadline, timeLeft, armedAt, timer, engine, signaled, first, received>>

ObservesCancel_Select(c) == TRUE
\* whether anything the call started waits on ctx.Done(): the context is only
\* asked for its deadline, and the final receive is on errChan alone
ObservesCancel(c) == FALSE

\* the caller cancels the context of a call that has not returned, before the
\* context's deadline
Cancel(c) ==
    /\ ~exited
    /\ pc[c] \notin {"idle", "returned"}
    /\ ~cancelled[c]
    /\ args[c].ctx.ok => clock < args[c].ctx.deadline
    /\ cancelled' = [cancelled EXCEPT ![c] = TRUE]
    /\ IF ObservesCancel(c)
       THEN /\ errChan' = Send(errChan, c, "ctx", c, Canceled)
            /\ first' = NoteFirst(first, c, Canceled)
       ELSE UNCHANGED <<errChan, first>>
    /\ UNCHANGED <<clock, exited, applyMutex, deleteLock, fatalErrHandler, pc, args, result,
                   deadline, timeLeft, armedAt, timer, engine, signaled, received, cluster,
                   public, dryRun, ec, host, lastOp, waitLog, flags>>

Next ==
    \/ Tick
    \/ \E c \in Calls : Call(c)
    \/ \E c \in Calls : Lock(c)
    \/ \E c \in Calls : Validate(c)
    \/ \E c \in Calls : ArmTimer(c)
    \/ \E c \in Calls : TimerFire(c)
    \/ \E c \in Calls : InstallHook(c)
    \/ \E c \in Calls : Spawn(c)
    \/ \E c \in Calls : EngineFatal(c)
    \/ \E c \in Calls : EngineDone(c)
    \/ \E c \in Calls : Receive(c)
    \/ \E c \in Calls : RestoreHook(c)
    \/ \E c \in Calls : Unlock(c)

Spec == Init /\ [][Next]_vars

\* the calls seen with the cluster they act on
ClusterSpec == ClusterInit /\ [][Next]_vars

\* the calls seen with the times at which they entered and got their mutex
WaitSpec == WaitInit /\ [][Next]_vars

\* the calls together with callers that cancel their contexts
CancelNext ==
    \/ Next
    \/ \E c \in Calls : Cancel(c)
CancelSpec == Init /\ [][CancelNext]_vars

\* the scheduler runs every goroutine that can run, the runtime fires due
\* timers and time passes; an engine invocation need not ever finish
CallStep(c) ==
    \/ Validate(c) \/ ArmTimer(c) \/ InstallHook(c) \/ Spawn(c)
    \/ Receive(c) \/ RestoreHook(c) \/ Unlock(c)
Fairness ==
    /\ WF_vars(Tick)
    /\ \A c \in Calls : /\ WF_vars(CallStep(c))
                        /\ SF_vars(Lock(c))
                        /\ WF_vars(TimerFire(c))
FairSpec == Spec /\ Fairness

\* ------------------------------------------------ the public functions

\* the state of the bridge, which the steps below leave alone
bridgeVars == <<clock, exited, applyMutex, deleteLock, fatalErrHandler, pc, args, result,
                errChan, deadline, timeLeft, armedAt, timer, engine, signaled, first, received,
                cancelled, cluster, waitLog, flags>>

\* *ApplyManifestsOptions and *ApplyKustomizationOptions a caller can pass: nil
\* or a struct with any DryRun and Recursive
PublicOptsValues == {NilOpts} \cup {<<[DryRun |-> d, Recursive |-> r]>> : d, r \in BOOLEAN}
\* path sequences a caller can pass, two of them the same paths in another order
PublicPaths == {<<>>, <<"m1">>, <<"m1", "m2">>, <<"m2", "m1">>}

\* reading a field through a nil pointer: a run-time panic, the bridge is not reached
NilDereference == [kind |-> "panic"]
\* return applyFunc(...) or return deleteFunc(...): the arguments the bridge receives
Delegated(fn, ctx, kubeconfigPath, opts, filePaths) ==
    [kind |-> "delegated",
     args |-> [fn |-> fn, kubeconfigPath |-> kubeconfigPath, opts |-> opts,
               filePaths |-> filePaths, ctx |-> ctx]]

ApplyManifests(ctx, kubeconfigPath, opts, filePaths) ==
    IF opts = NilOpts THEN NilDereference
    ELSE Delegated("applyFunc", ctx, kubeconfigPath,
                   <<[DryRun |-> opts[1].DryRun, Recursive |-> opts[1].Recursive,
                      IsKustomization |-> FALSE]>>, filePaths)

ApplyKustomization_AsManifests(ctx, kubeconfigPath, opts, filePaths) ==
    ApplyManifests(ctx, kubeconfigPath, opts, filePaths)
ApplyKustomization(ctx, kubeconfigPath, opts, filePaths) ==
    IF opts = NilOpts THEN NilDereference
    ELSE Delegated("applyFunc", ctx, kubeconfigPath,
                   <<[DryRun |-> opts[1].DryRun, Recursive |-> opts[1].Recursive,
                      IsKustomization |-> TRUE]>>, filePaths)

DeleteManifests(ctx, kubeconfigPath, filePaths) ==
    Delegated("deleteFunc", ctx, kubeconfigPath, <<deleteOptions>>, filePaths)

DeleteKustomization(ctx, kubeconfigPath, filePaths) ==
    Delegated("deleteFunc", ctx, kubeconfigPath,
              <<[deleteOptions EXCEPT !.IsKustomization = TRUE]>>, filePaths)

\* a caller calls one of the four public functions
CallApplyManifests ==
    /\ \E x \in Contexts, k \in KubeconfigPaths, o \in PublicOptsValues, p \in PublicPaths :
          public' = [name |-> "ApplyManifests", ctx |-> x, kubeconfigPath |-> k, opts |-> o,
                     filePaths |-> p, did |-> ApplyManifests(x, k, o, p)]
    /\ UNCHANGED <<bridgeVars, dryRun, ec, host, lastOp>>

CallApplyKustomization ==
    /\ \E x \in Contexts, k \in KubeconfigPaths, o \in PublicOptsValues, p \in PublicPaths :
          public' = [name |-> "ApplyKustomization", ctx |-> x, kubeconfigPath |-> k, opts |-> o,
                     filePaths |-> p, did |-> ApplyKustomization(x, k, o, p)]
    /\ UNCHANGED <<bridgeVars, dryRun, ec, host, lastOp>>

CallDeleteManifests ==
    /\ \E x \in Contexts, k \in KubeconfigPaths, p \in PublicPaths :
          public' = [name |-> "DeleteManifests", ctx |-> x, kubeconfigPath |-> k,
                     filePaths |-> p, did |-> DeleteManifests(x, k, p)]
    /\ UNCHANGED <<bridgeVars, dryRun, ec, host, lastOp>>

CallDeleteKustomization ==
    /\ \E x \in Contexts, k \in KubeconfigPaths, p \in PublicPaths :
          public' = [name |-> "DeleteKustomization", ctx |-> x, kubeconfigPath |-> k,
                     filePaths |-> p, did |-> DeleteKustomization(x, k, p)]
    /\ UNCHANGED <<bridgeVars, dryRun, ec, host, lastOp>>

PublicNext ==
    \/ CallApplyManifests
    \/ CallApplyKustomization
    \/ CallDeleteManifests
    \/ CallDeleteKustomization

\* no call of the bridge is under way and none will be: the two calls of the
\* model stay idle, with arguments that do not matter
IdleInputs ==
    {[fn |-> "applyFunc", kubeconfigPath |-> "kubeconfig", opts |-> OptsOf("applyFunc"),
      filePaths |-> <<"m1">>, ctx |-> NoDeadline]}
IdleInit == InitWith(IdleInputs, {{}})

\* the public functions alone
PublicSpec == IdleInit /\ [][PublicNext]_vars

\* ------------------------------------------------ DryRunType

\* every value a DryRunType can hold; DryRunType(n) compiles for each of them,
\* in any package, the type being exported
DryRunTypeValues == 0..(2^DryRunTypeBits - 1)
DryRunNone == 0
DryRunClient == 1
DryRunServer == 2
\* the array literal that String() indexes
DryRunNames == <<"none", "client", "server">>
\* an index outside the array: a run-time panic
IndexOutOfRange == [kind |-> "panic"]
\* [...]string{"none", "client", "server"}[d], Go's indexes starting at 0
String(d) ==
    IF d + 1 \in DOMAIN DryRunNames
    THEN [kind |-> "string", value |-> DryRunNames[d + 1]]
    ELSE IndexOutOfRange

\* some code holding a DryRunType converts it
Stringify ==
    /\ \E d \in DryRunTypeValues : dryRun' = [kind |-> "converted", d |-> d, out |-> String(d)]
    /\ UNCHANGED <<bridgeVars, public, ec, host, lastOp>>

TypesSpec == IdleInit /\ [][Stringify]_vars

\* ------------------------------------------------ the commands built

\* the path lists, contexts and options with which the flags take all their
\* forms: one path or two in either order; a deadline passed, ahead by whole
\* seconds or by a fraction more, or none; every combination of the options.
\* dryRunMode is the mode the caller wants, which DryRun says as far as a bool can
FlagPaths == {<<"m1">>, <<"m1", "m2">>, <<"m2", "m1">>}
FlagContexts == Contexts \cup {WithDeadline(LiveDeadline + 1)}
FlagInputs ==
    {[fn |-> "applyFunc", kubeconfigPath |-> "kubeconfig",
      opts |-> <<[DryRun |-> m # DryRunNone, Recursive |-> r, IsKustomization |-> k]>>,
      filePaths |-> p, ctx |-> x, dryRunMode |-> m] :
        m \in {DryRunNone, DryRunClient, DryRunServer}, r \in BOOLEAN, k \in BOOLEAN,
        p \in FlagPaths, x \in FlagContexts}
    \cup
    {[fn |-> "deleteFunc", kubeconfigPath |-> "kubeconfig",
      opts |-> <<[IsKustomization |-> k]>>,
      filePaths |-> p, ctx |-> x, dryRunMode |-> DryRunNone] :
        k \in BOOLEAN, p \in FlagPaths, x \in FlagContexts}
\* the call beside the one whose flags are looked at: it builds no command,
\* its kubeconfig path being empty
OtherCall ==
    [fn |-> "applyFunc", kubeconfigPath |-> "", opts |-> OptsOf("applyFunc"),
     filePaths |-> <<"m1">>, ctx |-> NoDeadline, dryRunMode |-> DryRunNone]
FlagsInit ==
    /\ InitWith(FlagInputs \cup {OtherCall}, {{}})
    /\ args["c1"] \in FlagInputs
    /\ args["c2"] = OtherCall

FlagsSpec == FlagsInit /\ [][Next]_vars

\* the command of call c has been built
Built(c) == engine[c] # "none"

\* ------------------------------------------------ EphemeralCluster

\* cluster.NewProvider(...): a handle that is not nil
NewProvider == 1
ClusterNames == 1..MaxClusterNames
TempFiles == 1..MaxTempFiles
LifecycleError(msg) == [kind |-> msg, origin |-> NoCall]
\* what can happen inside one Start: each step that can fail fails, provider.Create
\* failing with the cluster cleaned up or left behind, or every step succeeds
StartOutcomes ==
    {"CreateTemp", "CreateCleaned", "CreateLeft", "BuildConfigFromFlags",
     "NewForConfig", "dynamic.NewForConfig", "ok"}

StartResult_AssignFirst(e, h, n, f, o) ==
    LET e1 == [e EXCEPT !.clusterName = n, !.provider = NewProvider]
        e2 == [e1 EXCEPT !.kubeConfigFilePath = f]
    IN
    IF o = "CreateTemp"
    THEN [ec |-> e1, host |-> h,
          err |-> LifecycleError("could not create temporary file for kubeconf")]
    ELSE LET h1 == [h EXCEPT !.files = @ \cup {f}] IN
    IF o = "CreateCleaned"
    THEN [ec |-> e2, host |-> h1, err |-> LifecycleError("could not create ephemeral cluster")]
    ELSE LET h2 == [h1 EXCEPT !.clusters = @ \cup {n}] IN
    IF o = "CreateLeft"
    THEN [ec |-> e2, host |-> h2, err |-> LifecycleError("could not create ephemeral cluster")]
    ELSE IF o = "BuildConfigFromFlags"
    THEN [ec |-> e2, host |-> h2, err |-> LifecycleError("BuildConfigFromFlags")]
    ELSE IF o = "NewForConfig"
    THEN [ec |-> e2, host |-> h2, err |-> LifecycleError("could not create clientset")]
    ELSE IF o = "dynamic.NewForConfig"
    THEN [ec |-> e2, host |-> h2, err |-> LifecycleError("could not create dynamic client")]
    ELSE [ec |-> [e EXCEPT !.restConfig = f, !.clientset = f, !.dynamicClient = f,
                           !.clusterName = n, !.kubeConfigFilePath = f,
                           !.provider = NewProvider],
          host |-> h2, err |-> NilError]
\* Start on object e and host h, with clusterName n from randomName, the file f
\* that os.CreateTemp would create and the outcome o: the object, the host and
\* the returned error afterwards
StartResult(e, h, n, f, o) ==
    IF o = "CreateTemp"
    THEN [ec |-> e, host |-> h,
          err |-> LifecycleError("could not create temporary file for kubeconf")]
    ELSE LET h1 == [h EXCEPT !.files = @ \cup {f}] IN
    IF o = "CreateCleaned"
    THEN [ec |-> e, host |-> h1, err |-> LifecycleError("could not create ephemeral cluster")]
    ELSE LET h2 == [h1 EXCEPT !.clusters = @ \cup {n}] IN
    IF o = "CreateLeft"
    THEN [ec |-> e, host |-> h2, err |-> LifecycleError("could not create ephemeral cluster")]
    ELSE IF o = "BuildConfigFromFlags"
    THEN [ec |-> e, host |-> h2, err |-> LifecycleError("BuildConfigFromFlags")]
    ELSE IF o = "NewForConfig"
    THEN [ec |-> e, host |-> h2, err |-> LifecycleError("could not create clientset")]
    ELSE IF o = "dynamic.NewForConfig"
    THEN [ec |-> e, host |-> h2, err |-> LifecycleError("could not create dynamic client")]
    ELSE [ec |-> [e EXCEPT !.restConfig = f, !.clientset = f, !.dynamicClient = f,
                           !.clusterName = n, !.kubeConfigFilePath = f,
                           !.provider = NewProvider],
          host |-> h2, err |-> NilError]

\* the outcomes Start can have: os.CreateTemp needs room for a new file, and
\* provider.Create cannot succeed while a cluster of that name exists
CanHappen(h, n, o) ==
    /\ o # "CreateTemp" => TempFiles \ h.files # {}
    /\ o \notin {"CreateTemp", "CreateCleaned", "CreateLeft"} => n \notin h.clusters
    /\ o = "CreateCleaned" => n \notin h.clusters

Start ==
    /\ \E n \in ClusterNames, o \in StartOutcomes :
          /\ CanHappen(host, n, o)
          /\ \E f \in {x \in TempFiles \cup {Nil} :
                          IF o = "CreateTemp" THEN x = Nil ELSE x \in TempFiles \ host.files} :
                LET r == StartResult(ec, host, n, f, o)
                IN  /\ ec' = r.ec
                    /\ host' = r.host
                    /\ lastOp' = [op |-> "Start", err |-> r.err]
    /\ UNCHANGED <<bridgeVars, public, dryRun>>

\* provider.Delete and os.Remove on the fields of e: Delete fails, or it succeeds
\* and Remove fails, or both succeed; a file that is not there cannot be removed
Teardown(e, h) ==
    LET h1 == [h EXCEPT !.clusters = @ \ {e.clusterName}]
    IN  {[ec |-> e, host |-> h, err |-> LifecycleError("could not delete ephemeral cluster")],
         [ec |-> e, host |-> h1, err |-> LifecycleError("could not delete kubeconfig file")]}
        \cup {[ec |-> e, host |-> [h1 EXCEPT !.files = @ \ {e.kubeConfigFilePath}],
               err |-> NilError] : x \in {e.kubeConfigFilePath} \cap h.files}

StopResults_NoGuard(e, h) == Teardown(e, h)
\* Stop on object e and host h: the results it can have
StopResults(e, h) ==
    IF e.provider = Nil
    THEN {[ec |-> e, host |-> h, err |-> NilError]}
    ELSE Teardown(e, h)

Stop ==
    /\ \E r \in StopResults(ec, host) :
          /\ ec' = r.ec
          /\ host' = r.host
          /\ lastOp' = [op |-> "Stop", err |-> r.err]
    /\ UNCHANGED <<bridgeVars, public, dryRun>>

LifecycleNext ==
    \/ Start
    \/ Stop

\* one EphemeralCluster object and its host
LifecycleSpec == IdleInit /\ [][LifecycleNext]_vars

\* ------------------------------------------------------------ vocabulary
Families == {"apply", "delete"}
\* the call holds its family's lock and has not returned
InFlight(c) == pc[c] \in {"validate", "deadline", "hook", "spawn", "recv", "restore", "unlock"}
\* the call has taken a value from its result channel
HasResult(c) == pc[c] \in {"restore", "unlock", "returned"}
\* the call has left validation, with an error or towards the deadline computation
Validated(c) == pc[c] \notin {"idle", "lock", "validate"}
Valid(c) == ValidationError(args[c]) = NilError
\* the call installed its handler in the hook and is still waiting for its result
OwnsHook(c) == pc[c] \in {"spawn", "recv"}
\* the context's deadline was already in the past when the call started
Expired(c) == args[c].ctx.ok /\ args[c].ctx.deadline <= PastDeadline

\* C1: per family, at most one call is between acquiring the lock and returning,
\* and that call is the holder of the family's mutex
C1_MutualExclusion ==
    \A f \in Families :
        /\ Cardinality({c \in Calls : Family(c) = f /\ InFlight(c)}) <= 1
        /\ \A c \in Calls : Family(c) = f /\ InFlight(c) => Holder(f) = c
\* two calls of one family: one waits for its result, the other for the lock
C1_Witness ==
    \E c, d \in Calls : /\ c # d /\ Family(c) = Family(d)
                        /\ pc[c] = "recv" /\ pc[d] = "lock"

\* C2: at most one in-flight call, of either family, has installed its handler in
\* the global hook and not yet got its result
C2_SingleHookOwner == Cardinality({c \in Calls : OwnsHook(c)}) <= 1

\* C3: a call that returns an engine fatal error returns one raised by the engine
\* invocation it started itself
C3_ErrorAttribution ==
    \A c \in Calls : HasResult(c) /\ result[c].kind = "fatal" => result[c].origin = c

\* C4: a fatal condition signaled by an engine invocation never reaches the default
\* process-terminating handler
C4_FatalIntercepted == ~exited

\* C5: a call that passed validation consumes exactly one value of its result
\* channel and returns it; it is the first one sent there, and one of success,
\* an engine fatal error or DeadlineExceeded
C5_FirstValueWins ==
    \A c \in Calls :
        /\ received[c] <= 1
        /\ Valid(c) /\ HasResult(c) =>
              /\ received[c] = 1
              /\ first[c] # NoResult
              /\ result[c] = first[c]
              /\ result[c].kind \in {"nil", "fatal", "DeadlineExceeded"}
        /\ ~HasResult(c) => received[c] = 0 /\ (result[c] # NoResult => ~Valid(c))
\* the timer's value came first although the engine invocation then completed
C5_Witness ==
    \E c \in Calls : /\ pc[c] = "returned" /\ result[c] = DeadlineExceeded
                     /\ engine[c] = "sendnil" /\ ~signaled[c]

\* C6: every call that was made eventually returns
C6_EveryCallReturns ==
    \A c \in Calls : (pc[c] # "idle") ~> (pc[c] = "returned")

\* C7: a call with an empty kubeconfig path returns the kubeconfig validation
\* error whatever its other arguments are, and goes no further
C7_EmptyKubeconfig ==
    \A c \in Calls : args[c].kubeconfigPath = "" /\ Validated(c) =>
        /\ pc[c] \in {"unlock", "returned"}
        /\ result[c] = ErrEmptyKubeconfig
\* empty kubeconfig together with nil options, no paths and an expired context
C7_Witness ==
    \E c \in Calls : /\ pc[c] = "returned" /\ result[c] = ErrEmptyKubeconfig
                     /\ args[c].opts = NilOpts /\ args[c].filePaths = <<>> /\ Expired(c)

\* C8: with a non-empty kubeconfig path, nil options give the nil-options error
\* and non-nil options with no paths the no-files error; neither timer nor engine
\* is started
C8_NilOptionsNoFiles ==
    \A c \in Calls : args[c].kubeconfigPath # "" /\ Validated(c) =>
        /\ args[c].opts = NilOpts =>
              /\ pc[c] \in {"unlock", "returned"}
              /\ result[c] = ErrNilOptions
              /\ engine[c] = "none" /\ timer[c] = "none"
        /\ args[c].opts # NilOpts /\ args[c].filePaths = <<>> =>
              /\ pc[c] \in {"unlock", "returned"}
              /\ result[c] = ErrNoFiles(args[c].fn)
              /\ engine[c] = "none" /\ timer[c] = "none"
\* both errors have been returned, one of them for nil options and no paths
C8_Witness ==
    /\ \E c \in Calls : /\ pc[c] = "returned" /\ result[c] = ErrNilOptions
                        /\ args[c].filePaths = <<>>
    /\ \E c \in Calls : /\ pc[c] = "returned" /\ result[c] = ErrNoFiles(args[c].fn)

\* C9: a valid call whose context deadline was already past returns DeadlineExceeded
C9_ExpiredReturnsDeadline ==
    \A c \in Calls : Valid(c) /\ Expired(c) /\ HasResult(c) => result[c] = DeadlineExceeded
\* C9 (amended): a valid call whose context deadline was already past arms its timer
\* with timeLeft <= 0, due at once; it returns the first value sent on its result
\* channel, DeadlineExceeded unless an engine result or fatal error came first
C9_ExpiredFiresAtOnce ==
    \A c \in Calls : Valid(c) /\ Expired(c) =>
        /\ timer[c] # "none" => timeLeft[c] <= 0 /\ Due(c) <= armedAt[c]
        /\ timer[c] = "armed" => TimerDue(c)
        /\ HasResult(c) =>
              /\ first[c] = DeadlineExceeded => result[c] = DeadlineExceeded
              /\ result[c] # DeadlineExceeded => result[c].kind \in {"nil", "fatal"}
\* DeadlineExceeded was returned before 15 seconds passed, the engine still running
C9_Witness ==
    \E c \in Calls : /\ Valid(c) /\ Expired(c) /\ pc[c] = "returned"
                     /\ result[c] = DeadlineExceeded
                     /\ engine[c] = "running" /\ clock < StartClock + DefaultTimeout

\* C10: the deadline is the context's if it has one, else 15 seconds after the
\* moment it is computed; timeLeft is deadline - now at that moment; the timer's
\* callback does not run before timeLeft has passed since it was armed
C10_EffectiveDeadline ==
    \A c \in Calls : timer[c] # "none" =>
        /\ args[c].ctx.ok => deadline[c] = args[c].ctx.deadline
        /\ ~args[c].ctx.ok => deadline[c] = armedAt[c] + DefaultTimeout
        /\ timeLeft[c] = deadline[c] - armedAt[c]
        /\ timer[c] \in {"sending", "done"} => clock >= armedAt[c] + timeLeft[c]
\* a synthesized deadline has fired and was returned, a context's live one too
C10_Witness ==
    /\ \E c \in Calls : /\ ~args[c].ctx.ok /\ timer[c] = "done"
                        /\ result[c] = DeadlineExceeded /\ clock >= StartClock + DefaultTimeout
    /\ \E c \in Calls : /\ args[c].ctx.ok /\ ~Expired(c) /\ timer[c] = "done"
                        /\ timeLeft[c] > 0

\* C11: a family's lock is held exactly while a call of that family is between
\* acquisition and return; a call that returned, by whatever outcome, holds none
C11_LockReleased ==
    /\ \A f \in Families :
          Holder(f) # Unlocked <=> \E c \in Calls : Family(c) = f /\ InFlight(c)
    /\ \A c \in Calls : pc[c] = "returned" => applyMutex # c /\ deleteLock # c
\* both calls are back, one with a validation error, one with a channel value
C11_Witness ==
    /\ applyMutex = Unlocked /\ deleteLock = Unlocked
    /\ \E c, d \in Calls : /\ pc[c] = "returned" /\ ~Valid(c)
                           /\ pc[d] = "returned" /\ Valid(d)
                           /\ result[d].kind \in {"nil", "fatal", "DeadlineExceeded"}

\* C12: when a call that installed the hook is about to return (its deferred
\* restore has run, its lock is still held), the hook is the default handler
C12_HookRestored ==
    \A c \in Calls : Valid(c) /\ pc[c] = "unlock" => fatalErrHandler = DefaultHandler

\* C13: cancelling a call's context changes nothing the call does, and a call
\* that waits for its result leaves the wait only with success, an engine fatal
\* error, or DeadlineExceeded from its timer once timeLeft has passed
C13_CancelNoReturn ==
    [][\A c \in Calls :
          /\ cancelled'[c] /\ ~cancelled[c] =>
                pc' = pc /\ result' = result /\ errChan' = errChan /\ timer' = timer
          /\ pc[c] = "recv" /\ pc'[c] # "recv" =>
                /\ result'[c].kind \in {"nil", "fatal", "DeadlineExceeded"}
                /\ result'[c] = DeadlineExceeded => clock >= Due(c)]_vars
\* a context with a live deadline was cancelled before it; the call returned
\* only when its timer fired, its engine still running
C13_Witness ==
    \E c \in Calls : /\ cancelled[c] /\ args[c].ctx.ok /\ ~Expired(c)
                     /\ pc[c] = "returned" /\ result[c] = DeadlineExceeded
                     /\ engine[c] = "running"

\* no running or finished invocation of the other family touches the resources of c
Undisturbed(c) ==
    \A o \in Calls \ {c} :
        \/ args[o].fn = args[c].fn
        \/ engine[o] = "none"
        \/ Resources(args[o].filePaths) \cap Resources(args[c].filePaths) = {}

\* C14: when a deleteFunc call over applied manifests returns success, none of
\* their resources is left in the cluster
C14_DeleteRemoves ==
    \A d \in Calls :
        /\ args[d].fn = "deleteFunc" /\ Valid(d) /\ HasResult(d)
        /\ result[d] = NilError /\ Undisturbed(d)
        => Resources(args[d].filePaths) \cap cluster = {}

\* C15: when an applyFunc call returns success, the resources its manifests
\* describe are present in the cluster
C15_ApplyCreates ==
    \A a \in Calls :
        /\ args[a].fn = "applyFunc" /\ Valid(a) /\ HasResult(a)
        /\ result[a] = NilError /\ ~args[a].opts[1].DryRun /\ Undisturbed(a)
        => Resources(args[a].filePaths) \subseteq cluster

\* C16: a public function that reaches the bridge hands it IsKustomization =
\* FALSE from ApplyManifests and DeleteManifests and TRUE from ApplyKustomization
\* and DeleteKustomization, the caller's DryRun and Recursive from the apply
\* variants, and the caller's context, kubeconfig path and paths in their order;
\* the apply variants reach applyFunc, the delete variants always reach deleteFunc.
C16_PublicTranslation ==
    /\ public.name \in {"DeleteManifests", "DeleteKustomization"} => public.did.kind = "delegated"
    /\ public.did.kind = "delegated" =>
          LET b == public.did.args
              isApply == public.name \in {"ApplyManifests", "ApplyKustomization"}
          IN  /\ b.fn = IF isApply THEN "applyFunc" ELSE "deleteFunc"
              /\ b.opts # NilOpts
              /\ b.opts[1].IsKustomization =
                    (public.name \in {"ApplyKustomization", "DeleteKustomization"})
              /\ isApply => /\ b.opts[1].DryRun = public.opts[1].DryRun
                            /\ b.opts[1].Recursive = public.opts[1].Recursive
              /\ b.ctx = public.ctx
              /\ b.kubeconfigPath = public.kubeconfigPath
              /\ b.filePaths = public.filePaths
\* ApplyKustomization has delegated a dry-run of two paths given in descending order
C16_Witness ==
    /\ public.name = "ApplyKustomization"
    /\ public.did.kind = "delegated"
    /\ public.opts[1].DryRun /\ ~public.opts[1].Recursive
    /\ public.filePaths = <<"m2", "m1">>
    /\ public.did.args.opts[1].IsKustomization

\* C17: String() of DryRunNone is "none", of DryRunClient "client", of
\* DryRunServer "server", and String() yields a string for every value of the type
C17_ClosedEnumeration ==
    dryRun.kind = "converted" =>
        /\ dryRun.out.kind = "string"
        /\ dryRun.d = DryRunNone => dryRun.out.value = "none"
        /\ dryRun.d = DryRunClient => dryRun.out.value = "client"
        /\ dryRun.d = DryRunServer => dryRun.out.value = "server"

\* C18: Stop on a cluster object that is Uninitialized (no provider handle)
\* returns success, tears down no cluster, removes no file and leaves every
\* field of the object unchanged
C18_StopBeforeStart ==
    [][Stop /\ ec.provider = Nil =>
          /\ lastOp' = [op |-> "Stop", err |-> NilError]
          /\ ec' = ec
          /\ host' = host]_vars
\* Stop has returned success on a new object, nothing on the host
C18_Witness ==
    /\ lastOp = [op |-> "Stop", err |-> NilError]
    /\ ec = NewEphemeralCluster
    /\ host = [clusters |-> {}, files |-> {}]

\* C19: no spawned unit is left blocked in a send on the result channel of a call
\* that has already taken its result
C19_LosersFinish ==
    \A c \in Calls : HasResult(c) => errChan[c] = <<>>

\* C20: a call returns success only if its own engine invocation ran to completion
\* and never signaled a fatal condition
C20_NoSwallowedFatal ==
    \A c \in Calls : Valid(c) /\ HasResult(c) /\ result[c] = NilError =>
        engine[c] = "exited" /\ ~signaled[c]

\* C21: a call whose arguments fail validation never has a timer, an engine
\* invocation, a value sent on or received from its result channel, or its
\* handler in the global hook; no step of it changes the hook or the other
\* family's mutex; and once it has returned it does not hold its own family's mutex
C21_ValidationNoSideEffects ==
    /\ [](\A c \in Calls : ~Valid(c) =>
              /\ timer[c] = "none" /\ engine[c] = "none"
              /\ errChan[c] = <<>> /\ first[c] = NoResult /\ received[c] = 0
              /\ fatalErrHandler # c
              /\ pc[c] = "returned" => Holder(Family(c)) # c)
    /\ [][\A c \in Calls : ~Valid(c) /\ pc'[c] # pc[c] =>
              /\ fatalErrHandler' = fatalErrHandler
              /\ IF Family(c) = "apply" THEN deleteLock' = deleteLock
                                         ELSE applyMutex' = applyMutex]_vars
\* a call has returned its validation error while the other call, of the other
\* family, has its handler in the hook and holds its own mutex
C21_Witness ==
    \E c, o \in Calls :
        /\ ~Valid(c) /\ pc[c] = "returned" /\ result[c] = ValidationError(args[c])
        /\ Holder(Family(c)) = Unlocked
        /\ Family(o) # Family(c) /\ fatalErrHandler = o /\ Holder(Family(o)) = o

\* C22: a call waiting for its family's mutex has no result, no timer and
\* nothing sent on its result channel; its timer is armed no earlier than the
\* acquisition of the mutex; for a context without a deadline timeLeft is the
\* whole default timeout, counted from after the acquisition; for a context
\* with a deadline timeLeft is what remains of it when the timer is armed, the
\* time spent waiting for the mutex taken off
C22_TimeoutExcludesLockWait ==
    \A c \in Calls :
        /\ pc[c] = "lock" =>
              result[c] = NoResult /\ timer[c] = "none" /\ errChan[c] = <<>>
        /\ timer[c] # "none" =>
              /\ waitLog[c].calledAt <= waitLog[c].lockedAt
              /\ waitLog[c].lockedAt <= armedAt[c]
              /\ IF args[c].ctx.ok
                 THEN /\ timeLeft[c] = args[c].ctx.deadline - armedAt[c]
                      /\ timeLeft[c] <= (args[c].ctx.deadline - waitLog[c].calledAt)
                                        - (waitLog[c].lockedAt - waitLog[c].calledAt)
                 ELSE /\ timeLeft[c] = DefaultTimeout
                      /\ deadline[c] >= waitLog[c].lockedAt + DefaultTimeout
\* a call with a context without deadline has waited for the mutex and then
\* armed its timer with the whole default timeout
C22_Witness ==
    \E c \in Calls :
        /\ ~args[c].ctx.ok
        /\ waitLog[c].calledAt < waitLog[c].lockedAt
        /\ timer[c] = "armed"
        /\ timeLeft[c] = DefaultTimeout
        /\ deadline[c] > waitLog[c].calledAt + DefaultTimeout

\* C23: in every command built, exactly one of the flags kustomize and filename
\* is set, kustomize exactly when IsKustomization is true, and its value is the
\* caller's paths in their order with a comma between each two: path i at
\* position 2i-1, commas at the even positions, nothing else
C23_PathFlag ==
    \A c \in Calls : Built(c) =>
        LET p == args[c].filePaths
            chosen == IF args[c].opts[1].IsKustomization THEN "kustomize" ELSE "filename"
            other == IF args[c].opts[1].IsKustomization THEN "filename" ELSE "kustomize"
            v == flags[c][chosen]
        IN  /\ flags[c][other] = Unset
            /\ v # Unset
            /\ Len(v) = 2 * Len(p) - 1
            /\ \A i \in 1..Len(p) : v[2 * i - 1] = p[i]
            /\ \A i \in 1..(Len(p) - 1) : v[2 * i] = ","
\* deleteFunc has built a command for two kustomization paths given in descending order
C23_Witness ==
    \E c \in Calls :
        /\ Built(c) /\ args[c].fn = "deleteFunc"
        /\ args[c].opts[1].IsKustomization
        /\ args[c].filePaths = <<"m2", "m1">>
        /\ flags[c]["kustomize"] = <<"m2", ",", "m1">>
        /\ flags[c]["filename"] = Unset

C25_RequestTimeoutWithinTimeLeft ==
    \A c \in Calls : Built(c) /\ args[c].fn = "applyFunc" =>
        LET n == flags[c]["request-timeout"][1]
            mag == IF n >= 0 THEN n ELSE -n
            left == IF timeLeft[c] >= 0 THEN timeLeft[c] ELSE -timeLeft[c]
        IN  /\ mag * TicksPerSecond <= left /\ left < (mag + 1) * TicksPerSecond
            /\ (n > 0 => timeLeft[c] > 0) /\ (n < 0 => timeLeft[c] < 0)
            /\ n * TicksPerSecond <= timeLeft[c]
            /\ timeLeft[c] < TicksPerSecond => n <= 0
\* C25 as amended: the flag is timeLeft in whole seconds, the fraction dropped
\* towards zero; it does not exceed a timeLeft that is not negative, and is not
\* below a negative one; for a timeLeft below one second it is 0 or negative
C25_RequestTimeoutTruncated ==
    \A c \in Calls : Built(c) /\ args[c].fn = "applyFunc" =>
        LET n == flags[c]["request-timeout"][1]
            mag == IF n >= 0 THEN n ELSE -n
            left == IF timeLeft[c] >= 0 THEN timeLeft[c] ELSE -timeLeft[c]
        IN  /\ mag * TicksPerSecond <= left /\ left < (mag + 1) * TicksPerSecond
            /\ (n > 0 => timeLeft[c] > 0) /\ (n < 0 => timeLeft[c] < 0)
            /\ timeLeft[c] >= 0 => n * TicksPerSecond <= timeLeft[c]
            /\ timeLeft[c] < 0 => n * TicksPerSecond >= timeLeft[c]
            /\ timeLeft[c] < TicksPerSecond => n <= 0
\* an apply command was built with a fraction of a second past the deadline:
\* the flag is 0, which is more than the time left
C25_Witness ==
    \E c \in Calls :
        /\ Built(c) /\ args[c].fn = "applyFunc"
        /\ timeLeft[c] < 0 /\ -timeLeft[c] < TicksPerSecond
        /\ flags[c]["request-timeout"] = <<0>>

\* C26: ApplyManifests and ApplyKustomization called with nil options (and a
\* kubeconfig path that passes the first check) hand the call to the bridge,
\* whose validation returns the nil-options error; they do not panic
C26_NilOptionsReturned ==
    /\ public.name \in {"ApplyManifests", "ApplyKustomization"}
    /\ public.opts = NilOpts
    /\ public.kubeconfigPath # ""
    => /\ public.did.kind = "delegated"
       /\ ValidationError(public.did.args) = ErrNilOptions

\* C27: Start changes the cluster object only when every step succeeded, and
\* then sets the provider handle, the name, the kubeconfig path and the clients
\* together; a Start that fails leaves the object as it was, Uninitialized if it
\* was so; a Stop on the Uninitialized object then returns success and leaves the
\* clusters and files on the host, those a failed Start left behind included
C27_StartAllOrNothing ==
    /\ [](\/ ec = NewEphemeralCluster
          \/ /\ ec.provider # Nil /\ ec.clusterName # Nil /\ ec.kubeConfigFilePath # Nil
             /\ ec.restConfig # Nil /\ ec.clientset # Nil /\ ec.dynamicClient # Nil)
    /\ [][Start /\ lastOp'.op = "Start" /\ lastOp'.err # NilError => ec' = ec]_vars
    /\ [][Start /\ lastOp'.op = "Start" /\ lastOp'.err = NilError =>
             /\ ec'.provider # Nil
             /\ ec'.clusterName \in host'.clusters \ host.clusters
             /\ ec'.kubeConfigFilePath \in host'.files \ host.files]_vars
    /\ [][Stop /\ ec = NewEphemeralCluster =>
             /\ lastOp' = [op |-> "Stop", err |-> NilError]
             /\ host' = host /\ ec' = ec]_vars
\* Start failed after it had created the kubeconfig file and the cluster, the
\* defensive Stop has returned success, and both are still on the host
C27_Witness ==
    /\ lastOp = [op |-> "Stop", err |-> NilError]
    /\ ec = NewEphemeralCluster
    /\ host.clusters # {} /\ host.files # {}

TypeOK ==
    /\ clock \in Int
    /\ exited \in BOOLEAN
    /\ applyMutex \in Calls \cup {Unlocked}
    /\ deleteLock \in Calls \cup {Unlocked}
    /\ fatalErrHandler \in Calls \cup {DefaultHandler}
====
